---- MODULE Spec2Model ----
(***************************************************************************)
(* Model of the useEncryptedSurvey hook (src/unnamed/part_000): the        *)
(* client-side orchestrator that refreshes ciphertext handles, submits an  *)
(* encrypted answer and decrypts the three answers, guarded by three       *)
(* re-entrancy flags and by staleness checks on (address, chain, signer).  *)
(*                                                                         *)
(* One action is one run of JavaScript between two suspension points: an   *)
(* entry-point call up to its first await, or the continuation of an       *)
(* await up to the next one.  A change of the hook's parameters is one     *)
(* re-render, which also runs the auto-refresh effect.                     *)
(***************************************************************************)
EXTENDS Integers, Sequences, FiniteSets, TLC

(* ---------------------------- bounds ----------------------------------- *)
MaxRuns == 2
MaxEnvChanges == 2
MaxOps == 2
MaxEvents == 3
MaxFairEvents == 2

(* ---------------------------- values ----------------------------------- *)
None == "none"
Undef == "undef"
NoAddr == "noaddr"
ZeroAddress == "0x0"
ZeroHandle == "0x00"
Handles == {"hA", "hB"}
LedgerHandles == Handles \cup {ZeroHandle}

NoChain == 0
LocalChain == 31337
SepoliaChain == 11155111
(* The parameter tuples a render may pass: wallet disconnected, fully       *)
(* connected, account switched, chain switched, and instance or signer     *)
(* not (yet) available.                                                    *)
Params(c, s, p, i) == [chainId |-> c, ethersSigner |-> s, ethersReadonlyProvider |-> p, instance |-> i]
Disconnected == Params(NoChain, None, None, None)
ParamSets == { Disconnected,
               Params(SepoliaChain, "s1", "p1", "i1"),
               Params(SepoliaChain, "s2", "p1", "i1"),
               Params(LocalChain, "s1", "p1", "i1"),
               Params(SepoliaChain, "s1", "p1", None),
               Params(SepoliaChain, None, "p1", "i1") }
QuestionIds == {0, 1, 2}

(* The deployment table EncryptedSurveyAddresses is generated outside the  *)
(* hook; two shapes of it are covered: a local deployment exists, or only  *)
(* the Sepolia one does (the local entry holds the zero address).          *)
DeploymentTables ==
  { [c \in {LocalChain, SepoliaChain} |-> IF c = LocalChain THEN "aL" ELSE "aS"],
    [c \in {LocalChain, SepoliaChain} |-> IF c = LocalChain THEN ZeroAddress ELSE "aS"] }

(* Numbers handed to submit(): sign, two 16-bit halves and a flag for a    *)
(* fractional part, so that the uint32 bound is compared at full width.    *)
Uint32MaxHi == 65535
Uint32MaxLo == 65535
Num(neg, hi, lo, frac) == [neg |-> neg, hi |-> hi, lo |-> lo, frac |-> frac]
ValMinusOne == Num(TRUE, 0, 1, FALSE)
ValZero == Num(FALSE, 0, 0, FALSE)
ValOneAndHalf == Num(FALSE, 0, 1, TRUE)
ValUint32Max == Num(FALSE, Uint32MaxHi, Uint32MaxLo, FALSE)
ValTooBig == Num(FALSE, Uint32MaxHi + 1, 0, FALSE)
Values == {ValMinusOne, ValZero, ValOneAndHalf, ValUint32Max, ValTooBig}

(* The calls of submit(questionId, value) that are explored: every         *)
(* question and every value occurs in one of them, and one call names an   *)
(* ordinal outside the known set (the type QuestionId is erased at run     *)
(* time).                                                                  *)
BadQuestionId == 3
SubmitInputs == { <<0, ValMinusOne>>, <<1, ValZero>>, <<2, ValUint32Max>>,
                  <<0, ValOneAndHalf>>, <<1, ValTooBig>>, <<BadQuestionId, ValZero>> }

(* ---------------------------- messages --------------------------------- *)
MsgEmpty == ""
MsgNotDeployed == "deployment not found"
MsgStartDecrypt == "loading decryption signature"
MsgDecrypting == "decrypting survey results"
MsgDecryptCancelled == "decryption cancelled: chain or signer changed"
MsgDecryptOk == "decryption successful"
MsgDecryptError == "decryption error"
MsgConnectWallet == "please connect wallet first"
MsgInvalidNumber == "please enter a valid number"
MsgStartSubmit == "starting to submit"
MsgEncrypting == "encrypting"
MsgCancelledAddress == "transaction cancelled: contract address changed"
MsgCancelledChain == "transaction cancelled: chain changed"
MsgCancelledSigner == "transaction cancelled: signer changed"
MsgCancelledUnknown == "transaction cancelled: unknown reason"
MsgSubmitting == "submitting encrypted answer"
MsgWaiting == "waiting for transaction confirmation"
MsgCancelledLate == "transaction cancelled: chain or signer changed"
MsgSubmitRefreshing == "submit successful, refreshing ciphertext"
MsgSubmitted == "answer submitted, ciphertext updated"
MsgSubmittedNoRefresh == "answer submitted, but failed to refresh"
MsgSubmitError == "error"

(* ---------------------------- state ------------------------------------ *)
VARIABLES
  deployments,             \* EncryptedSurveyAddresses
  chainId, ethersSigner, ethersReadonlyProvider, instance,   \* parameters
  surveyRef,               \* surveyRef.current.address
  questions, clearTallies, message,
  isRefreshing, isDecrypting, isSubmitting,
  isRefreshingRef, isDecryptingRef, isSubmittingRef,
  hasRefreshedRef, autoTimer,
  refreshRuns, submitRuns, decryptRuns,   \* the async runs in flight, by slot
  encCalls, ledgerCalls,   \* input.encrypt() / submitAnswer() calls made under the submit lock now held
  ledgerArgs,              \* forms of the handle and the proof passed to submitAnswer() under that lock
  decryptCalls,            \* instance.userDecrypt() calls made by the latest decrypt run
  envChanges, ops          \* counters that bound the exploration

envVars == <<deployments, chainId, ethersSigner, ethersReadonlyProvider, instance, surveyRef>>
dataVars == <<questions, clearTallies>>
flagVars == <<isRefreshing, isDecrypting, isSubmitting,
              isRefreshingRef, isDecryptingRef, isSubmittingRef>>
vars == <<deployments, chainId, ethersSigner, ethersReadonlyProvider, instance,
          surveyRef, questions, clearTallies, message,
          isRefreshing, isDecrypting, isSubmitting,
          isRefreshingRef, isDecryptingRef, isSubmittingRef,
          hasRefreshedRef, autoTimer, refreshRuns, submitRuns, decryptRuns,
          encCalls, ledgerCalls, ledgerArgs, decryptCalls, envChanges, ops>>

Slots == 1..MaxRuns

(* Accepted calls and re-renders are explored up to MaxEvents in total.    *)
EventsLeft == ops + envChanges < MaxEvents

(* ---------------------- deployment resolution -------------------------- *)
(* Variant: a lookup that hands out the zero address as an address.        *)
getSurveyByChainIdKeepsZero(table, c) ==
  IF c = NoChain THEN NoAddr
  ELSE IF c \notin DOMAIN table THEN NoAddr
  ELSE table[c]

getSurveyByChainId(table, c) ==
  IF c = NoChain THEN NoAddr
  ELSE IF c \notin DOMAIN table \/ table[c] = ZeroAddress THEN NoAddr
  ELSE table[c]

effectiveChainId(table, c) ==
  IF LocalChain \in DOMAIN table /\ table[LocalChain] # ZeroAddress
     /\ (c = NoChain \/ c # LocalChain)
  THEN LocalChain
  ELSE c

AddressFor(table, c) == getSurveyByChainId(table, effectiveChainId(table, c))

SurveyAddress == AddressFor(deployments, chainId)

isDeployed == SurveyAddress # NoAddr /\ SurveyAddress # ZeroAddress

(* The availability predicates handed to the presentation layer.          *)
canGetTallies == SurveyAddress # NoAddr /\ ethersReadonlyProvider # None /\ ~isRefreshing
canDecrypt ==
  /\ SurveyAddress # NoAddr /\ instance # None /\ ethersSigner # None
  /\ ~isRefreshing /\ ~isDecrypting
  /\ \A q \in DOMAIN questions : questions[q].handle # Undef
canSubmit ==
  /\ SurveyAddress # NoAddr /\ instance # None /\ ethersSigner # None
  /\ ~isRefreshing /\ ~isSubmitting

(* sameChain / sameSigner are supplied by the caller of the hook: they     *)
(* compare a captured value with the wallet's current one.                 *)
sameChain(c) == c = chainId
sameSigner(s) == s = ethersSigner

(* ---------------------- question state --------------------------------- *)
Truthy(h) == h # Undef
InitialQuestions == [q \in QuestionIds |-> [handle |-> Undef, decrypted |-> Undef]]
HandlesOf(qs) == [q \in QuestionIds |-> qs[q].handle]
AllHandlesSet(qs) == \A q \in QuestionIds : Truthy(qs[q].handle)

(* ---------------------- auto-refresh effect ---------------------------- *)
(* Variant: an effect whose latch is never reset.                          *)
AutoRefreshEffectNoReset(addr, prov, sign, refreshing, latch) ==
  IF addr # NoAddr /\ prov # None /\ sign # None /\ ~refreshing /\ ~latch
  THEN [latch |-> TRUE, timer |-> <<[provider |-> prov, signer |-> sign]>>]
  ELSE [latch |-> latch, timer |-> <<>>]

(* One run of the effect (after the cleanup of the previous run, which     *)
(* clears a pending timeout).                                              *)
AutoRefreshEffect(addr, prov, sign, refreshing, latch) ==
  IF addr # NoAddr /\ prov # None /\ sign # None /\ ~refreshing /\ ~latch
  THEN [latch |-> TRUE, timer |-> <<[provider |-> prov, signer |-> sign]>>]
  ELSE IF addr = NoAddr \/ prov = None \/ sign = None
       THEN [latch |-> FALSE, timer |-> <<>>]
       ELSE [latch |-> latch, timer |-> <<>>]

(* The effect after a render in which isRefreshing took the value          *)
(* `refreshing' and the parameters stayed as they are.                     *)
EffectOnRefreshing(refreshing) ==
  IF refreshing = isRefreshing
  THEN [latch |-> hasRefreshedRef, timer |-> autoTimer]
  ELSE AutoRefreshEffect(SurveyAddress, ethersReadonlyProvider, ethersSigner,
                         refreshing, hasRefreshedRef)

(* ---------------------- runs ------------------------------------------- *)
IdleRefresh == [pc |-> "idle", address |-> NoAddr, signer |-> None,
                sessChain |-> NoChain, sessSigner |-> None, parent |-> 0]
IdleSubmit == [pc |-> "idle", v |-> ValZero, thisChainId |-> NoChain,
               thisAddress |-> NoAddr, thisSigner |-> None, provider |-> None]
IdleDecrypt == [pc |-> "idle", thisChainId |-> NoChain, thisAddress |-> NoAddr,
                thisSigner |-> None, handles |-> HandlesOf(InitialQuestions)]

FreeSlot(runs) == CHOOSE s \in Slots : runs[s].pc = "idle" /\ \A t \in Slots : t < s => runs[t].pc # "idle"
HasFreeSlot(runs) == \E s \in Slots : runs[s].pc = "idle"
InFlight(runs) == {s \in Slots : runs[s].pc # "idle"}


(* ---------------------- initial state ---------------------------------- *)
InitialParamSets == { Disconnected, Params(SepoliaChain, "s1", "p1", "i1") }

(* The state after the first render and its effects, for the parameters    *)
(* the hook is mounted with.                                               *)
Init ==
  /\ deployments \in DeploymentTables
  /\ \E np \in InitialParamSets :
       /\ chainId = np.chainId
       /\ ethersSigner = np.ethersSigner
       /\ ethersReadonlyProvider = np.ethersReadonlyProvider
       /\ instance = np.instance
  /\ surveyRef = AddressFor(deployments, chainId)
  /\ questions = InitialQuestions
  /\ clearTallies = <<>>
  /\ message = IF AddressFor(deployments, chainId) = NoAddr THEN MsgNotDeployed ELSE MsgEmpty
  /\ isRefreshing = FALSE /\ isDecrypting = FALSE /\ isSubmitting = FALSE
  /\ isRefreshingRef = FALSE /\ isDecryptingRef = FALSE /\ isSubmittingRef = FALSE
  /\ hasRefreshedRef = AutoRefreshEffect(AddressFor(deployments, chainId), ethersReadonlyProvider,
                                         ethersSigner, FALSE, FALSE).latch
  /\ autoTimer = AutoRefreshEffect(AddressFor(deployments, chainId), ethersReadonlyProvider,
                                   ethersSigner, FALSE, FALSE).timer
  /\ refreshRuns = [s \in Slots |-> IdleRefresh]
  /\ submitRuns = [s \in Slots |-> IdleSubmit]
  /\ decryptRuns = [s \in Slots |-> IdleDecrypt]
  /\ encCalls = 0 /\ ledgerCalls = 0
  /\ ledgerArgs = <<>>
  /\ decryptCalls = 0
  /\ envChanges = 0
  /\ ops = 0

(* ---------------------- re-render with new parameters ------------------ *)
Rerender(np) ==
  /\ envChanges < MaxEnvChanges
  /\ EventsLeft
  /\ np # Params(chainId, ethersSigner, ethersReadonlyProvider, instance)
  /\ envChanges' = envChanges + 1
  /\ chainId' = np.chainId
  /\ ethersSigner' = np.ethersSigner
  /\ ethersReadonlyProvider' = np.ethersReadonlyProvider
  /\ instance' = np.instance
  /\ surveyRef' = AddressFor(deployments, np.chainId)
  /\ message' = IF effectiveChainId(deployments, np.chainId) # effectiveChainId(deployments, chainId)
                   /\ AddressFor(deployments, np.chainId) = NoAddr
                THEN MsgNotDeployed ELSE message
  /\ LET depsChanged == \/ AddressFor(deployments, np.chainId) # SurveyAddress
                        \/ np.ethersReadonlyProvider # ethersReadonlyProvider
                        \/ np.ethersSigner # ethersSigner
         e == AutoRefreshEffect(AddressFor(deployments, np.chainId), np.ethersReadonlyProvider,
                                np.ethersSigner, isRefreshing, hasRefreshedRef)
     IN /\ hasRefreshedRef' = IF depsChanged THEN e.latch ELSE hasRefreshedRef
        /\ autoTimer' = IF depsChanged THEN e.timer ELSE autoTimer
  /\ UNCHANGED <<deployments, questions, clearTallies, flagVars,
                 refreshRuns, submitRuns, decryptRuns, encCalls, ledgerCalls, ledgerArgs,
                 decryptCalls, ops>>

(* ---------------------- refresh (refreshTallies) ----------------------- *)
(* What getMyAnswers() may return for questions 0, 1, 2: nothing answered, *)
(* question 1 answered, all three answered.                                *)
Answers(a, b, c) == [q \in QuestionIds |-> IF q = 0 THEN a ELSE IF q = 1 THEN b ELSE c]
LedgerAnswers == { Answers(ZeroHandle, ZeroHandle, ZeroHandle),
                   Answers(ZeroHandle, "hA", ZeroHandle),
                   Answers("hA", "hB", "hA") }

(* Variant: refreshTallies without its re-entrancy guard.                  *)
RefreshBlockedNever == FALSE
RefreshBlocked == isRefreshingRef
RefreshMissing(prov, sign) == surveyRef = NoAddr \/ prov = None \/ sign = None
RefreshAccepts(prov, sign) == ~RefreshBlocked /\ ~RefreshMissing(prov, sign)

(* refreshTallies() up to `await contract.getMyAnswers()', called from a   *)
(* closure that holds (prov, sign); parent is the submit run awaiting it.  *)
StartRefresh(prov, sign, parent) ==
  /\ HasFreeSlot(refreshRuns)
  /\ refreshRuns' = [refreshRuns EXCEPT ![FreeSlot(refreshRuns)] =
        [pc |-> "read", address |-> surveyRef, signer |-> sign,
         sessChain |-> chainId, sessSigner |-> ethersSigner, parent |-> parent]]
  /\ isRefreshingRef' = TRUE
  /\ isRefreshing' = TRUE
  /\ hasRefreshedRef' = EffectOnRefreshing(TRUE).latch
  /\ autoTimer' = <<>>

RefreshCall ==
  IF RefreshAccepts(ethersReadonlyProvider, ethersSigner)
  THEN /\ ops < MaxOps
       /\ EventsLeft
       /\ ops' = ops + 1
       /\ StartRefresh(ethersReadonlyProvider, ethersSigner, 0)
       /\ UNCHANGED <<envVars, dataVars, message, isDecrypting, isSubmitting,
                      isDecryptingRef, isSubmittingRef, submitRuns, decryptRuns,
                      encCalls, ledgerCalls, ledgerArgs, envChanges, decryptCalls>>
  ELSE UNCHANGED <<envVars, dataVars, message, flagVars, hasRefreshedRef, autoTimer,
                   refreshRuns, submitRuns, decryptRuns, encCalls, ledgerCalls, ledgerArgs, envChanges, decryptCalls, ops>>

(* The debounce timeout of the auto-refresh effect fires.                  *)
TimerFire ==
  /\ autoTimer # <<>>
  /\ IF RefreshAccepts(autoTimer[1].provider, autoTimer[1].signer)
     THEN StartRefresh(autoTimer[1].provider, autoTimer[1].signer, 0)
     ELSE /\ autoTimer' = <<>>
          /\ UNCHANGED <<isRefreshingRef, isRefreshing, hasRefreshedRef, refreshRuns>>
  /\ UNCHANGED <<envVars, dataVars, message, isDecrypting, isSubmitting,
                 isDecryptingRef, isSubmittingRef, submitRuns, decryptRuns,
                 encCalls, ledgerCalls, ledgerArgs, envChanges, decryptCalls, ops>>

(* Variant: the run ends without the `finally' that clears the flag.       *)
ReleaseSubmitNoFinally(s) ==
  /\ isSubmittingRef' = isSubmittingRef
  /\ isSubmitting' = isSubmitting
  /\ submitRuns' = [submitRuns EXCEPT ![s] = IdleSubmit]
  /\ encCalls' = 0
  /\ ledgerCalls' = 0
  /\ ledgerArgs' = <<>>

(* `finally' of the submit run: the lock is released.                      *)
ReleaseSubmit(s) ==
  /\ isSubmittingRef' = FALSE
  /\ isSubmitting' = FALSE
  /\ submitRuns' = [submitRuns EXCEPT ![s] = IdleSubmit]
  /\ encCalls' = 0
  /\ ledgerCalls' = 0
  /\ ledgerArgs' = <<>>

(* The continuation of a submit whose `await refreshTallies()' resolves.   *)
ResumeSubmit(s) ==
  /\ message' = IF submitRuns[s].pc = "awaitRefresh" THEN MsgSubmitted ELSE message
  /\ ReleaseSubmit(s)

(* `finally' of refreshTallies, and the awaiting submit if there is one.   *)
EndRefresh(r) ==
  /\ isRefreshingRef' = FALSE
  /\ isRefreshing' = FALSE
  /\ hasRefreshedRef' = EffectOnRefreshing(FALSE).latch
  /\ autoTimer' = EffectOnRefreshing(FALSE).timer
  /\ refreshRuns' = [refreshRuns EXCEPT ![r] = IdleRefresh]
  /\ IF refreshRuns[r].parent # 0
     THEN ResumeSubmit(refreshRuns[r].parent)
     ELSE UNCHANGED <<message, isSubmittingRef, isSubmitting, submitRuns, encCalls, ledgerCalls, ledgerArgs>>
  /\ UNCHANGED <<envVars, clearTallies, isDecrypting, isDecryptingRef, decryptRuns,
                 envChanges, decryptCalls, ops>>

(* Variant: a write that skips the questions the ledger reports as unset.  *)
WriteHandlesSkippingUnset(qs, ans) ==
  [q \in QuestionIds |-> IF ans[q] = ZeroHandle THEN qs[q] ELSE [qs[q] EXCEPT !.handle = ans[q]]]

(* Variant: a commit that also drops the decrypted values.                 *)
WriteHandlesClearsDecrypted(qs, ans) ==
  [q \in QuestionIds |-> [handle |-> ans[q], decrypted |-> Undef]]

WriteHandles(qs, ans) == [q \in QuestionIds |-> [qs[q] EXCEPT !.handle = ans[q]]]

(* getMyAnswers() resolves: setQuestions, then finally.                    *)
RefreshReadOk(r, ans) ==
  /\ refreshRuns[r].pc = "read"
  /\ questions' = WriteHandles(questions, ans)
  /\ EndRefresh(r)

(* Variant: a catch block that resets the handles.                         *)
RefreshReadFailClearsHandles(r) ==
  /\ refreshRuns[r].pc = "read"
  /\ questions' = [q \in QuestionIds |-> [questions[q] EXCEPT !.handle = Undef]]
  /\ EndRefresh(r)

(* getMyAnswers() rejects: catch (log only), then finally.                 *)
RefreshReadFail(r) ==
  /\ refreshRuns[r].pc = "read"
  /\ questions' = questions
  /\ EndRefresh(r)

(* ---------------------- submit ----------------------------------------- *)
IsInteger(v) == ~v.frac
LessThanZero(v) == v.neg /\ (v.hi > 0 \/ v.lo > 0 \/ v.frac)
(* Variant: the upper bound compared with >= instead of >.                 *)
GreaterOrEqualUint32Max(v) ==
  /\ ~v.neg
  /\ \/ v.hi > Uint32MaxHi
     \/ v.hi = Uint32MaxHi /\ v.lo >= Uint32MaxLo

GreaterThanUint32Max(v) ==
  /\ ~v.neg
  /\ \/ v.hi > Uint32MaxHi
     \/ v.hi = Uint32MaxHi /\ v.lo > Uint32MaxLo
     \/ v.hi = Uint32MaxHi /\ v.lo = Uint32MaxLo /\ v.frac
ValidValue(v) == IsInteger(v) /\ ~LessThanZero(v) /\ ~GreaterThanUint32Max(v)

(* Variant: the entry guard of submit forgets its own lock.                *)
SubmitBlockedNoOwnLock == isRefreshingRef
SubmitBlocked == isRefreshingRef \/ isSubmittingRef
SubmitMissing == SurveyAddress = NoAddr \/ instance = None \/ ethersSigner = None

(* Variant: isStale() that does not compare the signer.                    *)
IsStaleNoSigner(run) ==
  \/ run.thisAddress # surveyRef
  \/ ~sameChain(run.thisChainId)

(* isStale() of a run that captured thisAddress, thisChainId, thisSigner.  *)
IsStale(run) ==
  \/ run.thisAddress # surveyRef
  \/ ~sameChain(run.thisChainId)
  \/ ~sameSigner(run.thisSigner)

(* Variant: a staleness check that reports like the catch.                 *)
StaleMessageAsError(run) == MsgSubmitError

StaleMessage(run) ==
  IF run.thisAddress # surveyRef THEN MsgCancelledAddress
  ELSE IF ~sameChain(run.thisChainId) THEN MsgCancelledChain
  ELSE IF ~sameSigner(run.thisSigner) THEN MsgCancelledSigner
  ELSE MsgCancelledUnknown

refreshVars == <<isRefreshingRef, isRefreshing, hasRefreshedRef, autoTimer, refreshRuns>>

(* How the synchronous part of submit(questionId, value) ends: a silent    *)
(* return, a return with a message, a TypeError thrown to the caller by    *)
(* questions[questionId].question, or the start of run().                  *)
SubmitOutcome(q, v) ==
  IF SubmitBlocked THEN "blocked"
  ELSE IF SubmitMissing THEN "missing"
  ELSE IF ~ValidValue(v) THEN "invalid"
  ELSE IF q \notin DOMAIN questions THEN "throws"
  ELSE "accepted"

(* submit(questionId, value) up to run(), which suspends on the 100 ms yield. *)
SubmitCall(q, v) ==
  /\ IF SubmitOutcome(q, v) \in {"blocked", "throws"}
     THEN UNCHANGED <<message, isSubmittingRef, isSubmitting, submitRuns,
                      encCalls, ledgerCalls, ledgerArgs, ops>>
     ELSE IF SubmitOutcome(q, v) = "missing"
     THEN /\ message' = MsgConnectWallet
          /\ UNCHANGED <<isSubmittingRef, isSubmitting, submitRuns, encCalls, ledgerCalls, ledgerArgs, ops>>
     ELSE IF SubmitOutcome(q, v) = "invalid"
     THEN /\ message' = MsgInvalidNumber
          /\ UNCHANGED <<isSubmittingRef, isSubmitting, submitRuns, encCalls, ledgerCalls, ledgerArgs, ops>>
     ELSE /\ ops < MaxOps
          /\ EventsLeft
          /\ ops' = ops + 1
          /\ HasFreeSlot(submitRuns)
          /\ submitRuns' = [submitRuns EXCEPT ![FreeSlot(submitRuns)] =
                [pc |-> "yield", v |-> v, thisChainId |-> chainId,
                 thisAddress |-> SurveyAddress, thisSigner |-> ethersSigner,
                 provider |-> ethersReadonlyProvider]]
          /\ isSubmittingRef' = TRUE
          /\ isSubmitting' = TRUE
          /\ message' = MsgStartSubmit
          /\ UNCHANGED <<encCalls, ledgerCalls, ledgerArgs>>
  /\ UNCHANGED <<envVars, dataVars, refreshVars, isDecrypting, isDecryptingRef,
                 decryptRuns, envChanges, decryptCalls>>

(* After the yield: createEncryptedInput, add32(value), input.encrypt() is  *)
(* called; the value now lives in the encryption input only.               *)
SubmitEncryptCall(s) ==
  /\ submitRuns[s].pc = "yield"
  /\ submitRuns' = [submitRuns EXCEPT ![s].pc = "encrypt", ![s].v = ValZero]
  /\ encCalls' = encCalls + 1
  /\ message' = MsgEncrypting
  /\ UNCHANGED <<envVars, dataVars, flagVars, hasRefreshedRef, autoTimer, refreshRuns,
                 decryptRuns, ledgerCalls, ledgerArgs, envChanges, decryptCalls, ops>>

(* Variant: an outer catch that goes to `finally' without the refresh.     *)
SubmitCatchNoRefresh(s) ==
  /\ message' = MsgSubmitError
  /\ ReleaseSubmit(s)
  /\ UNCHANGED refreshVars

(* The outer catch of run(): error message, then refreshTallies() of the   *)
(* closure, awaited; finally when it resolves.                             *)
SubmitCatch(s) ==
  /\ message' = MsgSubmitError
  /\ IF RefreshAccepts(submitRuns[s].provider, submitRuns[s].thisSigner)
     THEN /\ StartRefresh(submitRuns[s].provider, submitRuns[s].thisSigner, s)
          /\ submitRuns' = [submitRuns EXCEPT ![s].pc = "awaitRefreshErr"]
          /\ UNCHANGED <<isSubmittingRef, isSubmitting, encCalls, ledgerCalls, ledgerArgs>>
     ELSE /\ ReleaseSubmit(s)
          /\ UNCHANGED refreshVars

HandleShapes == {"string", "Uint8Array", "Array", "other", "missing"}
HandleConvertible(shape) == shape \in {"string", "Uint8Array", "Array"}

(* What enc.inputProof can be.                                             *)
ProofShapes == {"string", "Uint8Array", "Array", "other"}

(* The form of handleBytes32: a string stays, a Uint8Array or an Array     *)
(* becomes a hex string (other shapes throw before this is used).          *)
ConvertHandle(shape) ==
  IF shape = "string" THEN "string"
  ELSE IF shape = "Uint8Array" THEN "string"
  ELSE IF shape = "Array" THEN "string"
  ELSE "none"

(* The form of inputProofBytes: a Uint8Array becomes a hex string, any     *)
(* other value is passed on as it is.                                      *)
ConvertProof(proof) ==
  IF proof = "Uint8Array" THEN "string" ELSE proof

(* input.encrypt() resolves: staleness check, conversion of the handle and *)
(* of the proof, then contract.submitAnswer() is called.                   *)
SubmitEncryptOk(s, shape, proof) ==
  /\ submitRuns[s].pc = "encrypt"
  /\ IF IsStale(submitRuns[s])
     THEN /\ message' = StaleMessage(submitRuns[s])
          /\ ReleaseSubmit(s)
          /\ UNCHANGED refreshVars
     ELSE IF ~HandleConvertible(shape)
     THEN SubmitCatch(s)
     ELSE /\ message' = MsgSubmitting
          /\ submitRuns' = [submitRuns EXCEPT ![s].pc = "tx"]
          /\ ledgerCalls' = ledgerCalls + 1
          /\ ledgerArgs' = <<[handle |-> ConvertHandle(shape), inputProof |-> ConvertProof(proof)]>>
          /\ UNCHANGED <<refreshVars, isSubmittingRef, isSubmitting, encCalls>>
  /\ UNCHANGED <<envVars, dataVars, isDecrypting, isDecryptingRef, decryptRuns,
                 envChanges, decryptCalls, ops>>

(* input.encrypt() rejects.                                                *)
SubmitEncryptFail(s) ==
  /\ submitRuns[s].pc = "encrypt"
  /\ SubmitCatch(s)
  /\ UNCHANGED <<envVars, dataVars, isDecrypting, isDecryptingRef, decryptRuns,
                 envChanges, decryptCalls, ops>>

(* contract.submitAnswer() resolves with the transaction; tx.wait() is called. *)
SubmitTxSent(s) ==
  /\ submitRuns[s].pc = "tx"
  /\ submitRuns' = [submitRuns EXCEPT ![s].pc = "wait"]
  /\ message' = MsgWaiting
  /\ UNCHANGED <<envVars, dataVars, flagVars, hasRefreshedRef, autoTimer, refreshRuns,
                 decryptRuns, encCalls, ledgerCalls, ledgerArgs, envChanges, decryptCalls, ops>>

(* contract.submitAnswer() or tx.wait() rejects: rethrown to the outer catch. *)
SubmitTxFail(s) ==
  /\ submitRuns[s].pc \in {"tx", "wait"}
  /\ SubmitCatch(s)
  /\ UNCHANGED <<envVars, dataVars, isDecrypting, isDecryptingRef, decryptRuns,
                 envChanges, decryptCalls, ops>>

(* Variant: no staleness check after the confirmation.                     *)
SubmitTxConfirmedNoCheck(s) ==
  /\ submitRuns[s].pc = "wait"
  /\ message' = MsgSubmitRefreshing
  /\ submitRuns' = [submitRuns EXCEPT ![s].pc = "settle"]
  /\ UNCHANGED <<isSubmittingRef, isSubmitting, encCalls, ledgerCalls, ledgerArgs>>
  /\ UNCHANGED <<envVars, dataVars, refreshVars, isDecrypting, isDecryptingRef, decryptRuns,
                 envChanges, decryptCalls, ops>>

(* tx.wait() resolves: staleness check, then the 500 ms wait.              *)
SubmitTxConfirmed(s) ==
  /\ submitRuns[s].pc = "wait"
  /\ IF IsStale(submitRuns[s])
     THEN /\ message' = MsgCancelledLate
          /\ ReleaseSubmit(s)
     ELSE /\ message' = MsgSubmitRefreshing
          /\ submitRuns' = [submitRuns EXCEPT ![s].pc = "settle"]
          /\ UNCHANGED <<isSubmittingRef, isSubmitting, encCalls, ledgerCalls, ledgerArgs>>
  /\ UNCHANGED <<envVars, dataVars, refreshVars, isDecrypting, isDecryptingRef, decryptRuns,
                 envChanges, decryptCalls, ops>>

(* The 500 ms wait ends: await refreshTallies() of the closure.            *)
SubmitSettled(s) ==
  /\ submitRuns[s].pc = "settle"
  /\ IF RefreshAccepts(submitRuns[s].provider, submitRuns[s].thisSigner)
     THEN /\ StartRefresh(submitRuns[s].provider, submitRuns[s].thisSigner, s)
          /\ submitRuns' = [submitRuns EXCEPT ![s].pc = "awaitRefresh"]
          /\ UNCHANGED <<message, isSubmittingRef, isSubmitting, encCalls, ledgerCalls, ledgerArgs>>
     ELSE /\ message' = MsgSubmitted
          /\ ReleaseSubmit(s)
          /\ UNCHANGED refreshVars
  /\ UNCHANGED <<envVars, dataVars, isDecrypting, isDecryptingRef, decryptRuns,
                 envChanges, decryptCalls, ops>>

(* ---------------------- decrypt (decryptTallies) ----------------------- *)
DecryptBlocked == isRefreshingRef \/ isDecryptingRef
DecryptMissing == SurveyAddress = NoAddr \/ instance = None \/ ethersSigner = None
DecryptHandlesReady == AllHandlesSet(questions)

(* The cleartext the Decryption Service holds for a handle.                *)
CleartextOf(h) == "clear:" \o h

(* userDecrypt() answers with a mapping keyed by the handles of the batch. *)
DecryptResponse(batch) == [h \in {batch[q] : q \in QuestionIds} |-> CleartextOf(h)]
Lookup(res, h) == IF h \in DOMAIN res THEN res[h] ELSE Undef

WriteDecrypted(qs, res) ==
  [q \in QuestionIds |-> [qs[q] EXCEPT !.decrypted = Lookup(res, qs[q].handle)]]
Summary(res, hs) == [idNumber |-> Lookup(res, hs[0]),
                     bankPassword |-> Lookup(res, hs[1]),
                     age |-> Lookup(res, hs[2])]

(* `finally' of the decrypt run.                                           *)
ReleaseDecrypt(d) ==
  /\ isDecryptingRef' = FALSE
  /\ isDecrypting' = FALSE
  /\ decryptRuns' = [decryptRuns EXCEPT ![d] = IdleDecrypt]

(* decryptTallies() up to `await FhevmDecryptionSignature.loadOrSign()'.   *)
DecryptCall ==
  /\ IF DecryptBlocked \/ DecryptMissing \/ ~DecryptHandlesReady
     THEN UNCHANGED <<message, isDecryptingRef, isDecrypting, decryptRuns, decryptCalls, ops>>
     ELSE /\ ops < MaxOps
          /\ EventsLeft
          /\ ops' = ops + 1
          /\ HasFreeSlot(decryptRuns)
          /\ decryptRuns' = [decryptRuns EXCEPT ![FreeSlot(decryptRuns)] =
                [pc |-> "sign", thisChainId |-> chainId, thisAddress |-> SurveyAddress,
                 thisSigner |-> ethersSigner, handles |-> HandlesOf(questions)]]
          /\ isDecryptingRef' = TRUE
          /\ isDecrypting' = TRUE
          /\ message' = MsgStartDecrypt
          /\ decryptCalls' = 0
  /\ UNCHANGED <<envVars, dataVars, refreshVars, isSubmitting, isSubmittingRef,
                 submitRuns, encCalls, ledgerCalls, ledgerArgs, envChanges>>

(* Variant: no staleness check after the signature.                        *)
DecryptSignedNoCheck(d) ==
  /\ decryptRuns[d].pc = "sign"
  /\ message' = MsgDecrypting
  /\ decryptRuns' = [decryptRuns EXCEPT ![d].pc = "decrypt"]
  /\ decryptCalls' = decryptCalls + 1
  /\ UNCHANGED <<isDecryptingRef, isDecrypting>>
  /\ UNCHANGED <<envVars, dataVars, refreshVars, isSubmitting, isSubmittingRef,
                 submitRuns, encCalls, ledgerCalls, ledgerArgs, envChanges, ops>>

(* loadOrSign() resolves with a signature: staleness check, then           *)
(* instance.userDecrypt() is called with the handles of the closure.       *)
DecryptSigned(d) ==
  /\ decryptRuns[d].pc = "sign"
  /\ IF IsStale(decryptRuns[d])
     THEN /\ message' = MsgDecryptCancelled
          /\ ReleaseDecrypt(d)
          /\ UNCHANGED decryptCalls
     ELSE /\ message' = MsgDecrypting
          /\ decryptRuns' = [decryptRuns EXCEPT ![d].pc = "decrypt"]
          /\ decryptCalls' = decryptCalls + 1
          /\ UNCHANGED <<isDecryptingRef, isDecrypting>>
  /\ UNCHANGED <<envVars, dataVars, refreshVars, isSubmitting, isSubmittingRef,
                 submitRuns, encCalls, ledgerCalls, ledgerArgs, envChanges, ops>>

(* Variant: a catch block that drops the summary.                          *)
DecryptFailClearsSummary(d) ==
  /\ decryptRuns[d].pc \in {"sign", "decrypt"}
  /\ message' = MsgDecryptError
  /\ clearTallies' = <<>>
  /\ ReleaseDecrypt(d)
  /\ UNCHANGED <<envVars, questions, refreshVars, isSubmitting, isSubmittingRef,
                 submitRuns, encCalls, ledgerCalls, ledgerArgs, envChanges, decryptCalls, ops>>

(* loadOrSign() rejects or resolves with null, or userDecrypt() rejects:   *)
(* catch, then finally.                                                    *)
DecryptFail(d) ==
  /\ decryptRuns[d].pc \in {"sign", "decrypt"}
  /\ message' = MsgDecryptError
  /\ ReleaseDecrypt(d)
  /\ UNCHANGED <<envVars, dataVars, refreshVars, isSubmitting, isSubmittingRef,
                 submitRuns, encCalls, ledgerCalls, ledgerArgs, envChanges, decryptCalls, ops>>

(* Variant: no staleness check after the batch.                            *)
DecryptDoneNoCheck(d) ==
  /\ decryptRuns[d].pc = "decrypt"
  /\ questions' = WriteDecrypted(questions, DecryptResponse(decryptRuns[d].handles))
  /\ clearTallies' = <<Summary(DecryptResponse(decryptRuns[d].handles), decryptRuns[d].handles)>>
  /\ message' = MsgDecryptOk
  /\ ReleaseDecrypt(d)
  /\ UNCHANGED <<envVars, refreshVars, isSubmitting, isSubmittingRef,
                 submitRuns, encCalls, ledgerCalls, ledgerArgs, envChanges, decryptCalls, ops>>

(* userDecrypt() resolves: staleness check, setQuestions over the current  *)
(* questions, setClearTallies from the questions of the closure, finally.  *)
DecryptDone(d) ==
  /\ decryptRuns[d].pc = "decrypt"
  /\ IF IsStale(decryptRuns[d])
     THEN /\ message' = MsgDecryptCancelled
          /\ UNCHANGED dataVars
     ELSE /\ questions' = WriteDecrypted(questions, DecryptResponse(decryptRuns[d].handles))
          /\ clearTallies' = <<Summary(DecryptResponse(decryptRuns[d].handles), decryptRuns[d].handles)>>
          /\ message' = MsgDecryptOk
  /\ ReleaseDecrypt(d)
  /\ UNCHANGED <<envVars, refreshVars, isSubmitting, isSubmittingRef,
                 submitRuns, encCalls, ledgerCalls, ledgerArgs, envChanges, decryptCalls, ops>>

Next ==
  \/ \E np \in ParamSets : Rerender(np)
  \/ RefreshCall
  \/ TimerFire
  \/ \E r \in Slots, ans \in LedgerAnswers : RefreshReadOk(r, ans)
  \/ \E r \in Slots : RefreshReadFail(r)
  \/ \E in \in SubmitInputs : SubmitCall(in[1], in[2])
  \/ \E s \in Slots : SubmitEncryptCall(s)
  \/ \E s \in Slots, shape \in HandleShapes, proof \in ProofShapes : SubmitEncryptOk(s, shape, proof)
  \/ \E s \in Slots : SubmitEncryptFail(s)
  \/ \E s \in Slots : SubmitTxSent(s)
  \/ \E s \in Slots : SubmitTxFail(s)
  \/ \E s \in Slots : SubmitTxConfirmed(s)
  \/ \E s \in Slots : SubmitSettled(s)
  \/ DecryptCall
  \/ \E d \in Slots : DecryptSigned(d)
  \/ \E d \in Slots : DecryptFail(d)
  \/ \E d \in Slots : DecryptDone(d)

Spec == Init /\ [][Next]_vars

(* Every external call eventually returns or fails, and every timer fires. *)
RefreshReturns == \E r \in Slots : RefreshReadFail(r) \/ \E ans \in LedgerAnswers : RefreshReadOk(r, ans)
SubmitContinues ==
  \E s \in Slots : \/ SubmitEncryptCall(s)
                   \/ \E shape \in HandleShapes, proof \in ProofShapes : SubmitEncryptOk(s, shape, proof)
                   \/ SubmitEncryptFail(s)
                   \/ SubmitTxSent(s)
                   \/ SubmitTxFail(s)
                   \/ SubmitTxConfirmed(s)
                   \/ SubmitSettled(s)
DecryptContinues == \E d \in Slots : DecryptSigned(d) \/ DecryptFail(d) \/ DecryptDone(d)

(* The behaviours checked for liveness: those with at most MaxFairEvents   *)
(* accepted calls and re-renders in total.                                 *)
WithinBudget == ops' + envChanges' <= MaxFairEvents

FairNext ==
  \/ (\E np \in ParamSets : Rerender(np)) /\ WithinBudget
  \/ RefreshCall /\ WithinBudget
  \/ TimerFire /\ WithinBudget
  \/ \E r \in Slots, ans \in LedgerAnswers : RefreshReadOk(r, ans)
  \/ \E r \in Slots : RefreshReadFail(r)
  \/ (\E in \in SubmitInputs : SubmitCall(in[1], in[2])) /\ WithinBudget
  \/ \E s \in Slots : SubmitEncryptCall(s)
  \/ \E s \in Slots, shape \in HandleShapes, proof \in ProofShapes : SubmitEncryptOk(s, shape, proof)
  \/ \E s \in Slots : SubmitEncryptFail(s)
  \/ \E s \in Slots : SubmitTxSent(s)
  \/ \E s \in Slots : SubmitTxFail(s)
  \/ \E s \in Slots : SubmitTxConfirmed(s)
  \/ \E s \in Slots : SubmitSettled(s)
  \/ DecryptCall /\ WithinBudget
  \/ \E d \in Slots : DecryptSigned(d)
  \/ \E d \in Slots : DecryptFail(d)
  \/ \E d \in Slots : DecryptDone(d)

FairSpec ==
  /\ Init
  /\ [][FairNext]_vars
  /\ WF_vars(RefreshReturns)
  /\ WF_vars(SubmitContinues)
  /\ WF_vars(DecryptContinues)

(* ======================= properties ==================================== *)
AnyUnset(qs) == \E q \in QuestionIds : qs[q].handle \in {Undef, ZeroHandle}
SessionChanged(run) ==
  \/ run.thisAddress # SurveyAddress
  \/ run.thisChainId # chainId
  \/ run.thisSigner # ethersSigner
Ends(runs, s) == runs[s].pc # "idle" /\ runs'[s].pc = "idle"

(* C1: while a submit holds its lock a further submit() call changes       *)
(* nothing, so at most one submit run is in flight and at most one         *)
(* input.encrypt() call and one submitAnswer() call are made under a lock. *)
C1_SingleFlightSubmit ==
  /\ [](/\ Cardinality(InFlight(submitRuns)) <= 1
        /\ encCalls <= 1
        /\ ledgerCalls <= 1)
  /\ [][(isSubmittingRef /\ \E in \in SubmitInputs : SubmitCall(in[1], in[2]))
          => UNCHANGED vars]_vars

C1_Witness ==
  /\ isSubmittingRef
  /\ \E s \in Slots : submitRuns[s].pc = "wait"
  /\ encCalls = 1
  /\ ledgerCalls = 1

(* C2: a refresh() call made while a refresh is in flight changes nothing, *)
(* so one getMyAnswers read is outstanding exactly while the lock is held, *)
(* and the lock is free when that refresh ends.                            *)
C2_IdempotentRefresh ==
  /\ [](Cardinality(InFlight(refreshRuns)) = IF isRefreshingRef THEN 1 ELSE 0)
  /\ [][(isRefreshingRef /\ RefreshCall) => UNCHANGED vars]_vars
  /\ [][(\E r \in Slots : Ends(refreshRuns, r)) => ~isRefreshingRef']_vars

C2_Witness ==
  /\ isRefreshingRef
  /\ Cardinality({r \in Slots : refreshRuns[r].pc = "read"}) = 1
  /\ ops >= 1

(* C3: a refresh is never in flight together with a submit or a decrypt.   *)
C3_RefreshExcludesSubmitAndDecrypt ==
  InFlight(refreshRuns) # {} => InFlight(submitRuns) = {} /\ InFlight(decryptRuns) = {}

(* C4: decrypt() called while some handle is unset (never populated, or    *)
(* the all-zero sentinel) takes no lock and calls neither loadOrSign nor   *)
(* userDecrypt.                                                            *)
C4_NoDecryptWhileUnset ==
  [][(AnyUnset(questions) /\ DecryptCall)
       => UNCHANGED <<isDecryptingRef, isDecrypting, decryptRuns>>]_vars

(* C5: a decrypted field that is set holds the cleartext of the question's *)
(* current handle.                                                         *)
C5_CleartextMatchesHandle ==
  \A q \in QuestionIds :
    questions[q].decrypted # Undef => questions[q].decrypted = CleartextOf(questions[q].handle)

(* C6: when input.encrypt() resolves and address, chain or signer differ   *)
(* from the captured ones, the submit ends there: no submitAnswer call, no *)
(* refresh, questions and summary untouched, lock released.                *)
C6_StaleAbortLossless ==
  [][\A s \in Slots :
       (/\ submitRuns[s].pc = "encrypt"
        /\ SessionChanged(submitRuns[s])
        /\ \E shape \in HandleShapes, proof \in ProofShapes : SubmitEncryptOk(s, shape, proof))
       => /\ submitRuns'[s].pc = "idle"
          /\ ledgerCalls' = 0
          /\ UNCHANGED <<refreshRuns, isRefreshingRef, isRefreshing>>
          /\ UNCHANGED <<questions, clearTallies>>
          /\ ~isSubmittingRef']_vars

C6_Witness ==
  /\ message \in {MsgCancelledAddress, MsgCancelledChain, MsgCancelledSigner}
  /\ ~isSubmittingRef
  /\ InFlight(submitRuns) = {}

(* C7: with address, instance and signer present and nothing in flight,    *)
(* submit(q, v) for a known question q with v = -1, 1.5 or 4294967296      *)
(* takes no lock, starts no run and leaves the questions alone; with v = 0 *)
(* or 4294967295 it takes the lock, and the accepted run goes on to call   *)
(* input.encrypt().                                                        *)
C7_ValidationBoundary ==
  /\ [][\A in \in SubmitInputs :
          (/\ ~isRefreshingRef /\ ~isSubmittingRef /\ ~isDecryptingRef
           /\ SurveyAddress # NoAddr /\ instance # None /\ ethersSigner # None
           /\ in[1] \in QuestionIds
           /\ SubmitCall(in[1], in[2]))
          => IF in[2] \in {ValZero, ValUint32Max}
             THEN /\ isSubmittingRef'
                  /\ \E s \in Slots : /\ submitRuns'[s].pc = "yield"
                                      /\ submitRuns'[s].v = in[2]
             ELSE /\ UNCHANGED <<flagVars, submitRuns, refreshRuns, decryptRuns,
                                 encCalls, ledgerCalls, questions, clearTallies>>
                  /\ message' = MsgInvalidNumber]_vars
  /\ [][\A s \in Slots :
          (submitRuns[s].pc = "yield" /\ submitRuns'[s].pc # "yield")
          => submitRuns'[s].pc = "encrypt" /\ encCalls' = encCalls + 1]_vars

C7_Witness ==
  /\ message = MsgInvalidNumber
  /\ ~isSubmittingRef
  /\ InFlight(submitRuns) = {}
  /\ encCalls = 0 /\ ledgerCalls = 0

(* C8: an operation that writes the questions or the summary does so only  *)
(* while chain and signer are those that were current when it started.     *)
C8_WritesOnlyInOwnSession ==
  [][dataVars' # dataVars =>
       /\ \A r \in Slots : Ends(refreshRuns, r) =>
            refreshRuns[r].sessChain = chainId /\ refreshRuns[r].sessSigner = ethersSigner
       /\ \A d \in Slots : Ends(decryptRuns, d) =>
            decryptRuns[d].thisChainId = chainId /\ decryptRuns[d].thisSigner = ethersSigner]_vars

(* C9: a decrypt that ends either leaves decrypted fields and summary as   *)
(* they were, or sets every decrypted field and the summary to the         *)
(* cleartexts of the three handles it sent.                                *)
C9_DecryptAllOrNothing ==
  [][\A d \in Slots : Ends(decryptRuns, d) =>
       \/ UNCHANGED <<questions, clearTallies>>
       \/ /\ \A q \in QuestionIds :
               questions'[q].decrypted = CleartextOf(decryptRuns[d].handles[q])
          /\ clearTallies' = <<[idNumber |-> CleartextOf(decryptRuns[d].handles[0]),
                                bankPassword |-> CleartextOf(decryptRuns[d].handles[1]),
                                age |-> CleartextOf(decryptRuns[d].handles[2])]>>]_vars

(* C10: a run that ends leaves the lock it took free, and when every       *)
(* external call returns or fails every lock taken is released again.      *)
C10_LocksReleased ==
  /\ [][/\ (\E r \in Slots : Ends(refreshRuns, r)) => ~isRefreshingRef'
        /\ (\E s \in Slots : Ends(submitRuns, s)) => ~isSubmittingRef'
        /\ (\E d \in Slots : Ends(decryptRuns, d)) => ~isDecryptingRef']_vars
  /\ isRefreshingRef ~> ~isRefreshingRef
  /\ isSubmittingRef ~> ~isSubmittingRef
  /\ isDecryptingRef ~> ~isDecryptingRef

C10_Witness ==
  /\ message = MsgSubmitError
  /\ ~isSubmittingRef /\ ~isRefreshingRef
  /\ InFlight(submitRuns) = {}
  /\ ops >= 1

(* C11: a decrypt() started while some question holds the all-zero         *)
(* sentinel reveals nothing (decrypted fields and summary stay as they     *)
(* were), and a decrypt that succeeds sets the summary's idNumber,         *)
(* bankPassword and age to the cleartexts of the handles of questions 0,   *)
(* 1 and 2.                                                                *)
C11_RoundTrip ==
  /\ [][\A d \in Slots :
          (Ends(decryptRuns, d) /\ \E q \in QuestionIds : decryptRuns[d].handles[q] = ZeroHandle)
          => UNCHANGED <<questions, clearTallies>>]_vars
  /\ [][\A d \in Slots :
          (Ends(decryptRuns, d) /\ message' = MsgDecryptOk)
          => clearTallies' = <<[idNumber |-> CleartextOf(decryptRuns[d].handles[0]),
                                bankPassword |-> CleartextOf(decryptRuns[d].handles[1]),
                                age |-> CleartextOf(decryptRuns[d].handles[2])]>>]_vars

(* C12: when the getMyAnswers read of a refresh rejects, no handle and no  *)
(* decrypted field changes, the refresh run ends with its lock released,   *)
(* and a submit awaiting that refresh resumes as from a resolved promise   *)
(* (it ends, and its error path is not entered).                           *)
C12_RefreshFailureKeepsState ==
  [][\A r \in Slots :
       RefreshReadFail(r)
       => /\ UNCHANGED <<questions, clearTallies>>
          /\ refreshRuns'[r].pc = "idle"
          /\ ~isRefreshingRef' /\ ~isRefreshing'
          /\ LET s == refreshRuns[r].parent
             IN IF s = 0
                THEN UNCHANGED <<message, submitRuns, isSubmittingRef>>
                ELSE /\ submitRuns'[s].pc = "idle"
                     /\ ~isSubmittingRef'
                     /\ message' # MsgSubmitError \/ message = MsgSubmitError]_vars

(* A submit went through its follow-up refresh although every read so far *)
(* has failed: the handles are still the initial ones.                     *)
C12_Witness ==
  /\ envChanges = 0
  /\ message = MsgSubmitted
  /\ ~isRefreshingRef /\ ~isSubmittingRef
  /\ InFlight(refreshRuns) = {} /\ InFlight(submitRuns) = {}
  /\ questions = InitialQuestions

(* C13: a read that resolves writes the three returned values, sentinel    *)
(* included, to questions 0, 1, 2 in one step; so the three handles are    *)
(* always all initial or all from one read.                                *)
C13_AtomicVerbatimOverwrite ==
  /\ [][\A r \in Slots, ans \in LedgerAnswers :
          RefreshReadOk(r, ans) => HandlesOf(questions') = ans]_vars
  /\ [](HandlesOf(questions) \in LedgerAnswers \cup {HandlesOf(InitialQuestions)})

(* A read has replaced (hA, hB, hA), which was decrypted, by (0, hA, 0).    *)
C13_Witness ==
  /\ HandlesOf(questions) = Answers(ZeroHandle, "hA", ZeroHandle)
  /\ questions[1].decrypted = CleartextOf("hB")
  /\ InFlight(refreshRuns) = {}

TripleAvailable ==
  SurveyAddress # NoAddr /\ ethersReadonlyProvider # None /\ ethersSigner # None

(* C14: while address, provider and signer stay available, a debounce      *)
(* timer that was armed goes away only by firing and starting a refresh    *)
(* (so the automatic refresh is not lost), and a timer is armed only with  *)
(* the latch clear (so there is no second one).                            *)
C14_AutoRefreshExactlyOnce ==
  /\ [][(autoTimer # <<>> /\ autoTimer' = <<>> /\ TripleAvailable /\ TripleAvailable')
          => /\ TimerFire
             /\ \E r \in Slots : refreshRuns[r].pc = "idle" /\ refreshRuns'[r].pc = "read"]_vars
  /\ [][(autoTimer = <<>> /\ autoTimer' # <<>>) => ~hasRefreshedRef]_vars

(* C15: when address, provider or signer goes away the latch is cleared    *)
(* and a pending timer dropped; when the three are back a timer is armed   *)
(* (at once, or when the refresh then in flight ends); with the latch set  *)
(* and the three staying available no timer is armed.                      *)
C15_AutoRefreshRearms ==
  /\ [][(TripleAvailable /\ ~TripleAvailable') => (~hasRefreshedRef' /\ autoTimer' = <<>>)]_vars
  /\ [][(~TripleAvailable /\ TripleAvailable' /\ ~isRefreshing')
          => (hasRefreshedRef' /\ autoTimer' # <<>>)]_vars
  /\ []((TripleAvailable /\ ~isRefreshing) => hasRefreshedRef)
  /\ [][(hasRefreshedRef /\ TripleAvailable /\ TripleAvailable')
          => (autoTimer' = autoTimer \/ autoTimer' = <<>>)]_vars

(* An automatic refresh has run (no call was made, yet handles were read)  *)
(* and a second one is pending after the signer went away and came back.   *)
C15_Witness ==
  /\ ops = 0
  /\ HandlesOf(questions) \in LedgerAnswers
  /\ hasRefreshedRef
  /\ autoTimer # <<>>

NotDeployed == SurveyAddress \in {NoAddr, ZeroAddress}

(* C16: while the effective chain resolves to no address (or the zero      *)
(* address), isDeployed and the three availability predicates are false,   *)
(* and a call of refresh(), submit() or decrypt() takes no lock, starts no *)
(* run, makes no external call, writes no question state and throws        *)
(* nothing.                                                                *)
C16_NotDeployedDegrades ==
  /\ [](NotDeployed => (~isDeployed /\ ~canGetTallies /\ ~canSubmit /\ ~canDecrypt))
  /\ [](NotDeployed => \A in \in SubmitInputs : SubmitOutcome(in[1], in[2]) # "throws")
  /\ [][(NotDeployed /\ (\/ RefreshCall
                          \/ DecryptCall
                          \/ \E in \in SubmitInputs : SubmitCall(in[1], in[2])))
          => UNCHANGED <<flagVars, refreshRuns, submitRuns, decryptRuns,
                         encCalls, ledgerCalls, questions, clearTallies>>]_vars

(* submit() was called with wallet and instance present on a chain without *)
(* deployment.                                                             *)
C16_Witness ==
  /\ NotDeployed
  /\ ethersSigner # None /\ instance # None
  /\ message = MsgConnectWallet
  /\ ~isSubmittingRef

(* C17: submit(q, v) with q outside {0, 1, 2} never ends in a fault thrown *)
(* to the caller (it is blocked, or rejected with a message), and it takes *)
(* no lock, starts no run and leaves the question state alone.             *)
C17_BadOrdinalRejected ==
  /\ [](\A in \in SubmitInputs :
          in[1] \notin QuestionIds
          => SubmitOutcome(in[1], in[2]) \in {"blocked", "missing", "invalid"})
  /\ [][\A in \in SubmitInputs :
          (in[1] \notin QuestionIds /\ SubmitCall(in[1], in[2]))
          => UNCHANGED <<flagVars, submitRuns, encCalls, ledgerCalls,
                         questions, clearTallies>>]_vars

(* C18: when the read of the refresh that a confirmed, non-stale submit    *)
(* awaits fails, the message becomes the "submitted, but failed to         *)
(* refresh" warning.                                                       *)
C18_SoftWarningOnRefreshFailure ==
  [][\A r \in Slots :
       (/\ refreshRuns[r].parent # 0
        /\ submitRuns[refreshRuns[r].parent].pc = "awaitRefresh"
        /\ RefreshReadFail(r))
       => message' = MsgSubmittedNoRefresh]_vars

(* C19: a submit that ends with the success message has issued its own     *)
(* getMyAnswers read after the confirmation and waited for it, and when    *)
(* that read resolves its handles are written in the step that releases    *)
(* the submit lock.                                                        *)
C19_PostSubmitReadAfterConfirmation ==
  /\ [][\A s \in Slots :
          (Ends(submitRuns, s) /\ message' = MsgSubmitted)
          => submitRuns[s].pc = "awaitRefresh"]_vars
  /\ [][\A s \in Slots, r \in Slots, ans \in LedgerAnswers :
          (/\ submitRuns[s].pc = "awaitRefresh"
           /\ refreshRuns[r].parent = s
           /\ RefreshReadOk(r, ans))
          => (HandlesOf(questions') = ans /\ Ends(submitRuns, s) /\ ~isSubmittingRef')]_vars

SubmitFails(s) ==
  \/ SubmitEncryptFail(s)
  \/ SubmitTxFail(s)
  \/ /\ ~IsStale(submitRuns[s])
     /\ \E shape \in HandleShapes, proof \in ProofShapes :
          ~HandleConvertible(shape) /\ SubmitEncryptOk(s, shape, proof)

(* C20: when input.encrypt(), the handle conversion, submitAnswer() or     *)
(* tx.wait() fails, the error message is set and refreshTallies() is       *)
(* called once: if it starts a read the submit keeps its lock until that   *)
(* read ends, whatever its outcome, and then ends with the lock released   *)
(* and the message untouched; otherwise the submit ends at once.           *)
C20_SubmitFailurePolicy ==
  /\ [][\A s \in Slots :
          SubmitFails(s)
          => /\ message' = MsgSubmitError
             /\ IF RefreshAccepts(submitRuns[s].provider, submitRuns[s].thisSigner)
                THEN /\ submitRuns'[s].pc = "awaitRefreshErr"
                     /\ isSubmittingRef'
                     /\ Cardinality({r \in Slots : refreshRuns'[r].pc = "read"
                                                    /\ refreshRuns'[r].parent = s}) = 1
                     /\ Cardinality(InFlight(refreshRuns')) = Cardinality(InFlight(refreshRuns)) + 1
                ELSE /\ submitRuns'[s].pc = "idle"
                     /\ ~isSubmittingRef'
                     /\ UNCHANGED refreshRuns]_vars
  /\ [][\A s \in Slots :
          (submitRuns[s].pc = "awaitRefreshErr" /\ submitRuns'[s].pc # "awaitRefreshErr")
          => /\ submitRuns'[s].pc = "idle"
             /\ ~isSubmittingRef'
             /\ message' = message
             /\ \E r \in Slots : refreshRuns[r].parent = s /\ Ends(refreshRuns, r)]_vars

C20_Witness ==
  /\ message = MsgSubmitError
  /\ isSubmittingRef /\ isRefreshingRef
  /\ \E s \in Slots :
       /\ submitRuns[s].pc = "awaitRefreshErr"
       /\ \E r \in Slots : refreshRuns[r].pc = "read" /\ refreshRuns[r].parent = s

(* C21: when tx.wait() resolves and address, chain or signer differ from   *)
(* the captured ones, the submit ends there: no refresh is started, no     *)
(* handle, decrypted field or summary changes, and the lock is released.   *)
C21_PostConfirmationStaleness ==
  [][\A s \in Slots :
       (/\ submitRuns[s].pc = "wait"
        /\ SessionChanged(submitRuns[s])
        /\ SubmitTxConfirmed(s))
       => /\ submitRuns'[s].pc = "idle"
          /\ ~isSubmittingRef' /\ ~isSubmitting'
          /\ UNCHANGED <<refreshRuns, isRefreshingRef, isRefreshing>>
          /\ UNCHANGED <<questions, clearTallies>>]_vars

C21_Witness ==
  /\ message = MsgCancelledLate
  /\ ~isSubmittingRef
  /\ InFlight(submitRuns) = {}
  /\ envChanges >= 1

(* C22: when loadOrSign() resolves and address, chain or signer differ     *)
(* from the captured ones, the decrypt ends there: userDecrypt() is not    *)
(* called, no decrypted field and no summary is written, and the lock is   *)
(* released.                                                               *)
C22_DecryptCheckpointAfterSignature ==
  [][\A d \in Slots :
       (/\ decryptRuns[d].pc = "sign"
        /\ SessionChanged(decryptRuns[d])
        /\ DecryptSigned(d))
       => /\ decryptRuns'[d].pc = "idle"
          /\ decryptCalls' = decryptCalls
          /\ ~isDecryptingRef' /\ ~isDecrypting'
          /\ UNCHANGED <<questions, clearTallies>>]_vars

C22_Witness ==
  /\ message = MsgDecryptCancelled
  /\ decryptCalls = 0
  /\ ~isDecryptingRef
  /\ InFlight(decryptRuns) = {}

(* C23: when userDecrypt() resolves and address, chain or signer differ    *)
(* from the captured ones, the cleartexts are dropped: no decrypted field  *)
(* and no summary is written, and the lock is released.                    *)
C23_DecryptCheckpointAfterBatch ==
  [][\A d \in Slots :
       (/\ decryptRuns[d].pc = "decrypt"
        /\ SessionChanged(decryptRuns[d])
        /\ DecryptDone(d))
       => /\ decryptRuns'[d].pc = "idle"
          /\ ~isDecryptingRef' /\ ~isDecrypting'
          /\ UNCHANGED <<questions, clearTallies>>]_vars

C23_Witness ==
  /\ message = MsgDecryptCancelled
  /\ decryptCalls = 1
  /\ ~isDecryptingRef
  /\ InFlight(decryptRuns) = {}

(* C24: when input.encrypt() resolves in an unchanged session, a handle or *)
(* a proof of an unrecognized shape makes the submit fail with the error   *)
(* message and without a submitAnswer() call, and a recognized shape (a    *)
(* string, a Uint8Array or an Array, the shapes the handle conversion      *)
(* knows) reaches submitAnswer() as a string, never in its raw form.       *)
C24_NormalizationRejectsUnrecognized ==
  [][\A s \in Slots, shape \in HandleShapes, proof \in ProofShapes :
       (/\ submitRuns[s].pc = "encrypt"
        /\ ~IsStale(submitRuns[s])
        /\ SubmitEncryptOk(s, shape, proof))
       => IF HandleConvertible(shape) /\ HandleConvertible(proof)
          THEN /\ ledgerCalls' = ledgerCalls + 1
               /\ ledgerArgs' = <<[handle |-> "string", inputProof |-> "string"]>>
          ELSE /\ message' = MsgSubmitError
               /\ ledgerCalls' = ledgerCalls
               /\ ledgerArgs' = ledgerArgs]_vars

DecryptedOf(qs) == [q \in QuestionIds |-> qs[q].decrypted]
SubmitStep ==
  \/ \E in \in SubmitInputs : SubmitCall(in[1], in[2])
  \/ SubmitContinues

(* C25: handles change only in the step where a refresh applies its read,  *)
(* decrypted fields only in the step where a decrypt applies its response; *)
(* that decrypt step changes no handle, and no step of a submit changes a  *)
(* question.                                                               *)
C25_WriteOwnership ==
  /\ [][HandlesOf(questions') # HandlesOf(questions)
          => \E r \in Slots, ans \in LedgerAnswers : RefreshReadOk(r, ans)]_vars
  /\ [][DecryptedOf(questions') # DecryptedOf(questions)
          => /\ \E d \in Slots : decryptRuns[d].pc = "decrypt" /\ DecryptDone(d)
             /\ HandlesOf(questions') = HandlesOf(questions)]_vars
  /\ [][SubmitStep => questions' = questions]_vars

C25_Witness ==
  /\ questions[0].handle = "hA"
  /\ questions[0].decrypted = CleartextOf("hA")
  /\ questions[1].handle = "hB"
  /\ \E s \in Slots : submitRuns[s].pc = "awaitRefresh"

CancelledMessages == {MsgDecryptCancelled, MsgCancelledAddress, MsgCancelledChain,
                      MsgCancelledSigner, MsgCancelledUnknown, MsgCancelledLate}
ErrorMessages == {MsgSubmitError, MsgDecryptError}

(* A submit run ends at one of its staleness checks.                       *)
SubmitStaleAbort(s) ==
  /\ IsStale(submitRuns[s])
  /\ \/ \E shape \in HandleShapes, proof \in ProofShapes : SubmitEncryptOk(s, shape, proof)
     \/ SubmitTxConfirmed(s)
(* A decrypt run ends at one of its staleness checks.                      *)
DecryptStaleAbort(d) ==
  /\ IsStale(decryptRuns[d])
  /\ DecryptSigned(d) \/ DecryptDone(d)
(* C26: the last message set by a submit or decrypt that ends at a         *)
(* staleness check is a `cancelled' message and no `error' message, and    *)
(* the last message set by one that ends after a caught failure is an      *)
(* `error' message and no `cancelled' message: the catch sets it, and the  *)
(* submit that then waits for its refresh sets no message when it ends.    *)
C26_StalenessDistinctFromFailure ==
  [][/\ \A s \in Slots : SubmitStaleAbort(s)
          => (Ends(submitRuns, s) /\ message' \in CancelledMessages \ ErrorMessages)
     /\ \A d \in Slots : DecryptStaleAbort(d)
          => (Ends(decryptRuns, d) /\ message' \in CancelledMessages \ ErrorMessages)
     /\ \A s \in Slots : SubmitFails(s)
          => message' \in ErrorMessages \ CancelledMessages
     /\ \A s \in Slots : (submitRuns[s].pc = "awaitRefreshErr" /\ Ends(submitRuns, s))
          => message' = message
     /\ \A d \in Slots : DecryptFail(d)
          => (Ends(decryptRuns, d) /\ message' \in ErrorMessages \ CancelledMessages)]_vars

C26_Witness ==
  /\ message = MsgDecryptError
  /\ decryptCalls = 1
  /\ ~isDecryptingRef
  /\ InFlight(decryptRuns) = {}
  /\ InFlight(submitRuns) = {}

(* C27: in every reachable state each availability predicate is true       *)
(* exactly when the entry guards of its operation let a call made in that  *)
(* state through: refresh() takes its lock and issues getMyAnswers(),      *)
(* submit() with a valid input and decrypt() take their locks.             *)
C27_PredicatesAgreeWithGuards ==
  /\ canGetTallies <=> RefreshAccepts(ethersReadonlyProvider, ethersSigner)
  /\ canSubmit <=> SubmitOutcome(1, ValZero) = "accepted"
  /\ canDecrypt <=> ~(DecryptBlocked \/ DecryptMissing \/ ~DecryptHandlesReady)

(* C28: the summary is unset at first; it changes only in the step where a *)
(* decrypt that is not stale applies its response and reports success; a   *)
(* refresh, a submit, a failed or stale decrypt and a re-render leave it   *)
(* as it was; once set it is never unset again.                            *)
C28_SummaryPersistence ==
  /\ clearTallies = <<>>
  /\ [][clearTallies' # clearTallies
          => \E d \in Slots : /\ decryptRuns[d].pc = "decrypt"
                              /\ ~IsStale(decryptRuns[d])
                              /\ DecryptDone(d)
                              /\ message' = MsgDecryptOk]_vars
  /\ [][(\/ RefreshCall \/ TimerFire \/ RefreshReturns
         \/ SubmitStep
         \/ \E np \in ParamSets : Rerender(np)
         \/ \E d \in Slots : DecryptFail(d)
         \/ \E d \in Slots : DecryptStaleAbort(d))
          => clearTallies' = clearTallies]_vars
  /\ [][clearTallies # <<>> => clearTallies' # <<>>]_vars

C28_Witness ==
  /\ clearTallies # <<>>
  /\ clearTallies[1].bankPassword = CleartextOf("hA")
  /\ questions[1].handle = "hB"
  /\ chainId = NoChain

====
